---- MODULE Spec2Model ----
(***************************************************************************)
(* Model of ml_module/classifier.py: the complaint classifier (TF-IDF +    *)
(* Naive Bayes with a keyword fallback), its load-or-train construction    *)
(* and the process-wide lazily created instance.                           *)
(* With it, the Category and Complaint tables of complaints/models.py and  *)
(* the views that write them: submit_complaint, update_complaint, the      *)
(* populate_categories command and the deletion of a Category row.         *)
(* And the report views of dashboard/views.py, which only read the table:  *)
(* manage_complaints, admin_dashboard and export_pdf.                      *)
(*                                                                         *)
(* Python strings are sequences of one-character strings. Confidences are  *)
(* fixed-point numbers in units of 1/100000 (0.4 is 40000).                *)
(***************************************************************************)
EXTENDS Integers, Sequences, FiniteSets, TLC

\* ------------------------------------------------------------------ bounds
\* Input texts are concatenations of at most MaxFrags fragments.
MaxFrags == 2
\* Threads of the process calling predict_category
NumThreads == 2
\* Complaint rows ever created
MaxComplaints == 1
\* Complaint rows in the table the report views read
MaxRows == 2
\* AdminResponse rows of one complaint
MaxResponses == 1

\* ------------------------------------------------------- program constants
\* len(text.strip()) < 10
MinLength == 10
\* confidence < 0.4
Threshold == 40000
\* return ('Other', 0.5)
ShortConfidence == 50000
\* return (keyword_prediction, 0.6)
FallbackConfidence == 60000
\* return (self.keyword_based_classification(text), 0.5)
ErrorConfidence == 50000
\* the confidence 1.0 in the fixed-point unit
One == 10 ^ 5

\* --------------------------------------------------------------- strings
UpperCase == <<"A","B","C","D","E","F","G","H","I","J","K","L","M",
               "N","O","P","Q","R","S","T","U","V","W","X","Y","Z">>
LowerCase == <<"a","b","c","d","e","f","g","h","i","j","k","l","m",
               "n","o","p","q","r","s","t","u","v","w","x","y","z">>
Digits == {"0","1","2","3","4","5","6","7","8","9"}
Whitespace == {" ", "\t", "\n"}

\* str.lower() on one character
lower_char(c) ==
    IF \E i \in 1..Len(UpperCase) : UpperCase[i] = c
    THEN LowerCase[CHOOSE i \in 1..Len(UpperCase) : UpperCase[i] = c]
    ELSE c

\* str.lower()
RECURSIVE lower(_)
lower(s) ==
    IF s = <<>> THEN <<>> ELSE <<lower_char(Head(s))>> \o lower(Tail(s))

\* str.lstrip(), str.rstrip()
RECURSIVE lstrip(_)
lstrip(s) ==
    IF s # <<>> /\ Head(s) \in Whitespace THEN lstrip(Tail(s)) ELSE s

RECURSIVE rstrip(_)
rstrip(s) ==
    IF s # <<>> /\ s[Len(s)] \in Whitespace
    THEN rstrip(SubSeq(s, 1, Len(s) - 1))
    ELSE s

\* strip() replaced by lstrip()
strip_left_only(s) == lstrip(s)

\* str.strip(): drop leading and trailing whitespace
strip(s) == rstrip(lstrip(s))

\* keyword in text_lower: the substring test
Contains(s, k) ==
    \E i \in 0..(Len(s) - Len(k)) : \A j \in 1..Len(k) : s[i + j] = k[j]

\* str.split(): the maximal runs of non-whitespace characters
RECURSIVE split(_)
split(s) ==
    IF s = <<>> THEN <<>>
    ELSE IF Head(s) \in Whitespace THEN split(Tail(s))
    ELSE LET stops == {i \in 1..Len(s) : s[i] \in Whitespace}
             n == IF stops = {} THEN Len(s)
                  ELSE (CHOOSE i \in stops : \A j \in stops : i <= j) - 1
         IN  <<SubSeq(s, 1, n)>> \o split(SubSeq(s, n + 1, Len(s)))

\* ' '.join(words)
RECURSIVE join(_)
join(words) ==
    IF words = <<>> THEN <<>>
    ELSE IF Len(words) = 1 THEN Head(words)
    ELSE Head(words) \o <<" ">> \o join(Tail(words))

\* re.sub(r'[^a-z0-9\s]', ' ', text)
Kept == {LowerCase[i] : i \in 1..Len(LowerCase)} \cup Digits \cup Whitespace

RECURSIVE sub_special(_)
sub_special(s) ==
    IF s = <<>> THEN <<>>
    ELSE <<IF Head(s) \in Kept THEN Head(s) ELSE " ">> \o sub_special(Tail(s))

\* preprocess_text that collapses the whitespace before it replaces the
\* special characters
preprocess_text_collapse_first(text) == sub_special(join(split(lower(text))))

\* ComplaintClassifier.preprocess_text
preprocess_text(text) == join(split(sub_special(lower(text))))

\* ------------------------------------------------------------ categories
\* CATEGORY_KEYWORDS[category]
CATEGORY_KEYWORDS(category) ==
    CASE
       category = "Electricity" -> <<
        <<"e","l","e","c","t","r","i","c","i","t","y">>,
        <<"p","o","w","e","r">>,
        <<"l","i","g","h","t">>,
        <<"e","l","e","c","t","r","i","c">>,
        <<"v","o","l","t","a","g","e">>,
        <<"t","r","a","n","s","f","o","r","m","e","r">>,
        <<"p","o","l","e">>,
        <<"w","i","r","e">>,
        <<"c","u","r","r","e","n","t">>,
        <<"b","l","a","c","k","o","u","t">>,
        <<"o","u","t","a","g","e">>,
        <<"m","e","t","e","r">>,
        <<"b","i","l","l">>,
        <<"s","t","r","e","e","t"," ","l","i","g","h","t">>,
        <<"l","a","m","p">>,
        <<"b","u","l","b">>,
        <<"c","o","n","n","e","c","t","i","o","n">>,
        <<"s","h","o","c","k">> >>
    [] category = "Water Supply" -> <<
        <<"w","a","t","e","r">>,
        <<"s","u","p","p","l","y">>,
        <<"p","i","p","e">>,
        <<"l","e","a","k">>,
        <<"d","r","a","i","n","a","g","e">>,
        <<"s","e","w","a","g","e">>,
        <<"t","a","p">>,
        <<"p","i","p","e","l","i","n","e">>,
        <<"d","r","i","n","k","i","n","g"," ","w","a","t","e","r">>,
        <<"t","a","n","k">>,
        <<"b","o","r","e">>,
        <<"p","u","m","p">>,
        <<"p","r","e","s","s","u","r","e">>,
        <<"c","o","n","t","a","m","i","n","a","t","e","d">>,
        <<"d","i","r","t","y">>,
        <<"o","v","e","r","f","l","o","w">>,
        <<"b","l","o","c","k","a","g","e">>,
        <<"c","l","o","g">> >>
    [] category = "Road & Transport" -> <<
        <<"r","o","a","d">>,
        <<"s","t","r","e","e","t">>,
        <<"p","o","t","h","o","l","e">>,
        <<"t","r","a","f","f","i","c">>,
        <<"s","i","g","n","a","l">>,
        <<"t","r","a","n","s","p","o","r","t">>,
        <<"f","o","o","t","p","a","t","h">>,
        <<"p","a","v","e","m","e","n","t">>,
        <<"c","r","o","s","s","i","n","g">>,
        <<"h","i","g","h","w","a","y">>,
        <<"p","a","t","h","w","a","y">>,
        <<"j","a","m">>,
        <<"c","o","n","g","e","s","t","i","o","n">>,
        <<"s","i","g","n">>,
        <<"d","i","v","i","d","e","r">>,
        <<"c","r","a","c","k">>,
        <<"d","a","m","a","g","e">>,
        <<"r","e","p","a","i","r">> >>
    [] category = "Cleanliness" -> <<
        <<"g","a","r","b","a","g","e">>,
        <<"w","a","s","t","e">>,
        <<"t","r","a","s","h">>,
        <<"d","i","r","t","y">>,
        <<"c","l","e","a","n","l","i","n","e","s","s">>,
        <<"d","u","s","t","b","i","n">>,
        <<"s","a","n","i","t","a","t","i","o","n">>,
        <<"l","i","t","t","e","r">>,
        <<"d","u","m","p">>,
        <<"s","m","e","l","l">>,
        <<"h","y","g","i","e","n","e">>,
        <<"s","w","e","e","p","i","n","g">>,
        <<"c","l","e","a","n","i","n","g">>,
        <<"s","t","i","n","k">>,
        <<"o","d","o","r">>,
        <<"f","i","l","t","h">>,
        <<"r","u","b","b","l","e">>,
        <<"d","e","b","r","i","s">> >>
    [] category = "Noise" -> <<
        <<"n","o","i","s","e">>,
        <<"s","o","u","n","d">>,
        <<"l","o","u","d">>,
        <<"d","i","s","t","u","r","b","a","n","c","e">>,
        <<"S","p","e","a","k","e","r">>,
        <<"m","u","s","i","c">>,
        <<"c","o","n","s","t","r","u","c","t","i","o","n">>,
        <<"p","o","l","l","u","t","i","o","n">>,
        <<"v","o","l","u","m","e">>,
        <<"s","h","o","u","t","i","n","g">>,
        <<"p","a","r","t","y">>,
        <<"h","o","r","n">>,
        <<"s","i","r","e","n">>,
        <<"b","a","r","k","i","n","g">>,
        <<"d","i","s","t","u","r","b">>,
        <<"q","u","i","e","t">> >>
    [] category = "Other" -> <<
        <<"o","t","h","e","r">>,
        <<"m","i","s","c","e","l","l","a","n","e","o","u","s">>,
        <<"g","e","n","e","r","a","l">>,
        <<"c","o","m","p","l","a","i","n","t">>,
        <<"i","s","s","u","e">>,
        <<"p","r","o","b","l","e","m">> >>

\* The pieces input texts are built from
Fragments ==
    { <<"p","o","t","h","o","l","e"," ">>,
      <<"d","i","r","t","y">>,
      <<"r","o","a","d">>,
      <<"x","y","z","1","2">>,
      <<" "," ">>,
      <<"P","O","W","E","R","!">>,
      <<"g","a","r","b","a","g","e">>,
      <<"s","t","r","e","e","t","-","l","i","g","h","t">>,
      <<"S","p","e","a","k","e","r">> }

\* list(CATEGORY_KEYWORDS.keys()): the enumeration, in dict iteration order
categories ==
    <<"Electricity", "Water Supply", "Road & Transport", "Cleanliness",
      "Noise", "Other">>

CategorySet == {categories[i] : i \in 1..Len(categories)}

\* TRAINING_DATA.keys(): the labels the training bank is fitted on
TRAINING_LABELS ==
    {"Electricity", "Water Supply", "Road & Transport", "Cleanliness",
     "Noise", "Other"}

\* ---------------------------------------------------------------- inputs
RECURSIVE TextsOfLen(_)
TextsOfLen(n) ==
    IF n = 0 THEN {<<>>}
    ELSE {t \o f : t \in TextsOfLen(n - 1), f \in Fragments}

Texts == UNION {TextsOfLen(n) : n \in 0..MaxFrags}

\* ------------------------------------------------------ keyword fallback
\* sum(1 for keyword in keywords if keyword in text_lower)
keyword_score(category, text_lower) ==
    LET keywords == CATEGORY_KEYWORDS(category)
    IN  Cardinality({i \in 1..Len(keywords) : Contains(text_lower, keywords[i])})

\* scores[category] for each category from the i-th on, in the iteration
\* order of CATEGORY_KEYWORDS.items()
RECURSIVE keyword_scores(_, _)
keyword_scores(text_lower, i) ==
    IF i > Len(categories) THEN <<>>
    ELSE <<keyword_score(categories[i], text_lower)>>
         \o keyword_scores(text_lower, i + 1)

\* max() replaced by a scan that lets a later key win a tie
RECURSIVE max_key_last(_, _, _)
max_key_last(scores, i, best) ==
    IF i > Len(scores) THEN best
    ELSE max_key_last(scores, i + 1,
                      IF scores[i] >= scores[best] THEN i ELSE best)

\* max(scores, key=scores.get) over the keys from the i-th on: a later key
\* replaces the best one only when its value is strictly greater
RECURSIVE max_key(_, _, _)
max_key(scores, i, best) ==
    IF i > Len(scores) THEN best
    ELSE max_key(scores, i + 1, IF scores[i] > scores[best] THEN i ELSE best)

\* ComplaintClassifier.keyword_based_classification
keyword_based_classification(text) ==
    LET text_lower == lower(text)
        scores == keyword_scores(text_lower, 1)
        max_category == max_key(scores, 2, 1)
    IN  IF scores[max_category] > 0 THEN categories[max_category] ELSE "Other"

\* ------------------------------------------------------ statistical model
\* self.model = None
NoneModel == [kind |-> "None", classes |-> {}, usable |-> FALSE]

\* A fitted sklearn Pipeline: classes is classifier.classes_; usable is
\* whether predict/predict_proba run to completion on it.
Pipeline(classes, usable) ==
    [kind |-> "Pipeline", classes |-> classes, usable |-> usable]

\* self.model.fit(X_train, y_train) on the fixed bank
FittedModel == Pipeline(TRAINING_LABELS, TRUE)

\* The probability levels max(probabilities) is drawn from
ConfLevels == {0, Threshold - 1, Threshold, One}

\* The outcome of self.model.predict([processed_text])[0] followed by
\* max(self.model.predict_proba([processed_text])[0]): an exception
\* (AttributeError on None, or a failure inside the library), or a label of
\* the model's classes with a probability. The library's arithmetic is not
\* modelled: every label and every level is a possible outcome.
Inference(self_model, processed_text) ==
    IF self_model.kind = "None" \/ ~self_model.usable
    THEN {[raised |-> TRUE, prediction |-> "", confidence |-> 0]}
    ELSE {[raised |-> FALSE, prediction |-> l, confidence |-> c] :
             l \in self_model.classes, c \in ConfLevels}

\* ----------------------------------------------------------------- predict
Return(category, confidence) ==
    [raised |-> FALSE, category |-> category, confidence |-> confidence]

Raise == [raised |-> TRUE, category |-> "", confidence |-> 0]

\* confidence < 0.4 replaced by confidence <= 0.4
predict_try_le(use_keywords_fallback, inference, keyword_prediction) ==
    IF inference.raised THEN Raise
    ELSE IF use_keywords_fallback /\ inference.confidence <= Threshold
         THEN Return(keyword_prediction, FallbackConfidence)
         ELSE Return(inference.prediction, inference.confidence)

\* the statistical confidence returned as a percentage
predict_try_percent(use_keywords_fallback, inference, keyword_prediction) ==
    IF inference.raised THEN Raise
    ELSE IF use_keywords_fallback /\ inference.confidence < Threshold
         THEN Return(keyword_prediction, FallbackConfidence)
         ELSE Return(inference.prediction, inference.confidence * 100)

\* The try block of predict: the calls on self.model, then
\* the low-confidence test. keyword_prediction is the value of
\* self.keyword_based_classification(text), used only where the code calls it.
predict_try(use_keywords_fallback, inference, keyword_prediction) ==
    IF inference.raised THEN Raise
    ELSE IF use_keywords_fallback /\ inference.confidence < Threshold
         THEN Return(keyword_prediction, FallbackConfidence)
         ELSE Return(inference.prediction, inference.confidence)

\* predict without the except clause
predict_body_no_except(text, use_keywords_fallback, inference, keyword_prediction) ==
    IF text = <<>> \/ Len(strip(text)) < MinLength
    THEN Return("Other", ShortConfidence)
    ELSE predict_try(use_keywords_fallback, inference, keyword_prediction)

\* the except clause answering 'Other' instead of the keyword category
predict_body_other(text, use_keywords_fallback, inference, keyword_prediction) ==
    IF text = <<>> \/ Len(strip(text)) < MinLength
    THEN Return("Other", ShortConfidence)
    ELSE LET attempt == predict_try(use_keywords_fallback, inference,
                                         keyword_prediction)
         IN  IF attempt.raised
             THEN Return("Other", ErrorConfidence)
             ELSE attempt

\* The body of predict, given the outcome of the calls on self.model and the
\* value of self.keyword_based_classification(text)
predict_body(text, use_keywords_fallback, inference, keyword_prediction) ==
    IF text = <<>> \/ Len(strip(text)) < MinLength
    THEN Return("Other", ShortConfidence)
    ELSE LET attempt == predict_try(use_keywords_fallback, inference,
                                    keyword_prediction)
         IN  IF attempt.raised
             THEN Return(keyword_prediction, ErrorConfidence)
             ELSE attempt

\* the keyword path run on processed_text instead of text
predict_keywords_on_processed(text, use_keywords_fallback, inference) ==
    predict_body(text, use_keywords_fallback, inference,
                 keyword_based_classification(preprocess_text(text)))

\* ComplaintClassifier.predict
predict(text, use_keywords_fallback, inference) ==
    predict_body(text, use_keywords_fallback, inference,
                 keyword_based_classification(text))

\* ------------------------------------------------------------------ state
VARIABLES
    disk,         \* the file at self.model_path
    writers,      \* threads inside joblib.dump on that file
    _classifier,  \* the module global: 0 is None, else the instance of a thread
    model,        \* self.model of the instance each thread constructs
    pc,           \* where each thread is in predict_category
    inst,         \* the local variable classifier of predict_category
    how,          \* history: the path of the construction each thread runs
    inits,        \* history: ComplaintClassifier() calls started
    trainings,    \* history: fits of train()
    writes,       \* history: joblib.dump calls that opened the file
    last,         \* history: what the last predict_category returned
    text,         \* harness: the input string
    stub,         \* harness: the classifier's self.model
    flag,         \* harness: use_keywords_fallback
    stat,         \* harness: what the calls on self.model do
    out,          \* harness: what the call returned
    norm,         \* harness: what preprocess_text returned
    op,           \* harness: the method called
    registry,     \* database: the names of the Category rows
    complaints,   \* database: the Complaint rows, by id
    http,         \* the response to the last request
    now,          \* reports: timezone.now(), in hours
    table,        \* reports: the Complaint rows the report views read
    query,        \* reports: the parameters of the last report request
    report        \* reports: what the last report view returned

process_vars ==
    <<disk, writers, _classifier, model, pc, inst, how, inits, trainings,
      writes, last>>
harness_vars == <<text, stub, flag, stat, out, norm, op>>
data_vars == <<registry, complaints, http>>
report_vars == <<now, table, query, report>>
vars == <<process_vars, harness_vars, data_vars, report_vars>>

Threads == 1..NumThreads

\* ------------------------------------------------------------ the artifact
Absent == [state |-> "absent", model |-> NoneModel]
\* a file joblib.load raises on: truncated, not a pickle, half written
Corrupt == [state |-> "corrupt", model |-> NoneModel]
\* a file joblib.load returns m from
File(m) == [state |-> "file", model |-> m]

\* Labels of a pipeline fitted before the category enumeration changed
StaleLabels == {"Electricity", "Sanitation"}

\* What the file at model_path holds when the process starts: nothing, a
\* damaged file, the dump of the current bank's model, the dump of a pipeline
\* fitted on another label set, or a dump that unpickles under the installed
\* library but whose predict fails under it.
InitialArtifacts ==
    {Absent, Corrupt, File(FittedModel), File(Pipeline(StaleLabels, TRUE)),
     File(Pipeline(TRAINING_LABELS, FALSE))}

\* The descriptions the requests submit: one too short to classify, one
\* long enough
RequestTexts ==
    { <<"t","a","p">>,
      <<"P","O","W","E","R","!","r","o","a","d">> }

\* The history of one construction: whether the file existed and loaded,
\* the model joblib.load returned, the fits and the save_model calls
NoPath == [path |-> "none", loaded |-> NoneModel, fits |-> 0, saves |-> 0]

NoResult == [raised |-> FALSE, category |-> "Other", confidence |-> 0]
NoInference == [raised |-> FALSE, prediction |-> "", confidence |-> 0]

HarnessIdle ==
    /\ text = <<>>
    /\ stub = NoneModel
    /\ flag = TRUE
    /\ stat = NoInference
    /\ out = Raise
    /\ norm = <<>>
    /\ op = "none"

\* No request was answered yet
NoResponse == [view |-> "none", kind |-> "none", level |-> "none"]

DataIdle ==
    /\ registry = {}
    /\ complaints = <<>>
    /\ http = NoResponse

\* No report was asked for yet
NoQuery == [view |-> "none"]
NoReport == [view |-> "none", kind |-> "none"]

ReportIdle ==
    /\ now = 0
    /\ table = {}
    /\ query = NoQuery
    /\ report = NoReport

ProcessIdle ==
    /\ disk = Absent
    /\ writers = {}
    /\ _classifier = 0
    /\ model = [t \in Threads |-> NoneModel]
    /\ pc = [t \in Threads |-> "idle"]
    /\ inst = [t \in Threads |-> 0]
    /\ how = [t \in Threads |-> NoPath]
    /\ inits = 0
    /\ trainings = 0
    /\ writes = 0
    /\ last = NoResult

\* ------------------------------------------------------------- the process
Init ==
    /\ disk \in InitialArtifacts
    /\ writers = {}
    /\ _classifier = 0
    /\ model = [t \in Threads |-> NoneModel]
    /\ pc = [t \in Threads |-> "idle"]
    /\ inst = [t \in Threads |-> 0]
    /\ how = [t \in Threads |-> NoPath]
    /\ inits = 0
    /\ trainings = 0
    /\ writes = 0
    /\ last = NoResult
    /\ HarnessIdle
    /\ DataIdle
    /\ ReportIdle

\* get_classifier that constructs on every call, whatever the global holds
GetClassifier_always_constructs(t) ==
    /\ pc[t] = "idle"
    /\ pc' = [pc EXCEPT ![t] = "init"]
    /\ model' = [model EXCEPT ![t] = NoneModel]
    /\ inits' = inits + 1
    /\ UNCHANGED <<disk, writers, _classifier, inst, how, trainings, writes, last>>
    /\ UNCHANGED <<harness_vars, data_vars, report_vars>>

\* get_classifier: the test of the global; when it is None the constructor
\* starts (self.model = None)
GetClassifier(t) ==
    /\ pc[t] = "idle"
    /\ IF _classifier = 0
       THEN /\ pc' = [pc EXCEPT ![t] = "init"]
            /\ model' = [model EXCEPT ![t] = NoneModel]
            /\ inits' = inits + 1
            /\ UNCHANGED inst
       ELSE /\ pc' = [pc EXCEPT ![t] = "predict"]
            /\ inst' = [inst EXCEPT ![t] = _classifier]
            /\ UNCHANGED <<model, inits>>
    /\ UNCHANGED <<disk, writers, _classifier, how, trainings, writes, last>>
    /\ UNCHANGED <<harness_vars, data_vars, report_vars>>

\* __init__: if os.path.exists(self.model_path): load_model() else: train()
InitExists(t) ==
    /\ pc[t] = "init"
    /\ IF disk.state # "absent"
       THEN /\ pc' = [pc EXCEPT ![t] = "load"]
            /\ UNCHANGED how
       ELSE /\ pc' = [pc EXCEPT ![t] = "train"]
            /\ how' = [how EXCEPT ![t].path = "absent"]
    /\ UNCHANGED <<disk, writers, _classifier, model, inst, inits, trainings,
                   writes, last>>
    /\ UNCHANGED <<harness_vars, data_vars, report_vars>>

\* load_model whose except clause does not call train()
LoadModel_no_retrain(t) ==
    /\ pc[t] = "load"
    /\ \/ /\ disk.state = "file"
          /\ model' = [model EXCEPT ![t] = disk.model]
          /\ how' = [how EXCEPT ![t].path = "loaded", ![t].loaded = disk.model]
       \/ /\ disk.state # "file"
          /\ how' = [how EXCEPT ![t].path = "loadfailed"]
          /\ UNCHANGED model
    /\ pc' = [pc EXCEPT ![t] = "publish"]
    /\ UNCHANGED <<disk, writers, _classifier, inst, inits, trainings, writes, last>>
    /\ UNCHANGED <<harness_vars, data_vars, report_vars>>

\* load_model: joblib.load returns the file's model, or raises (the file is
\* gone, damaged, or being written by another thread) and train() is called
LoadModel(t) ==
    /\ pc[t] = "load"
    /\ \/ /\ disk.state = "file"
          /\ model' = [model EXCEPT ![t] = disk.model]
          /\ how' = [how EXCEPT ![t].path = "loaded", ![t].loaded = disk.model]
          /\ pc' = [pc EXCEPT ![t] = "publish"]
       \/ /\ disk.state # "file"
          /\ how' = [how EXCEPT ![t].path = "loadfailed"]
          /\ pc' = [pc EXCEPT ![t] = "train"]
          /\ UNCHANGED model
    /\ UNCHANGED <<disk, writers, _classifier, inst, inits, trainings, writes, last>>
    /\ UNCHANGED <<harness_vars, data_vars, report_vars>>

\* train: the pipeline is fitted on the bank
Train(t) ==
    /\ pc[t] = "train"
    /\ model' = [model EXCEPT ![t] = FittedModel]
    /\ trainings' = trainings + 1
    /\ how' = [how EXCEPT ![t].fits = @ + 1]
    /\ pc' = [pc EXCEPT ![t] = "save"]
    /\ UNCHANGED <<disk, writers, _classifier, inst, inits, writes, last>>
    /\ UNCHANGED <<harness_vars, data_vars, report_vars>>

\* save_model without the try/except: a failing joblib.dump leaves the
\* constructor through the exception, and the caller without a classifier
SaveOpen_propagates(t) ==
    /\ pc[t] = "save"
    /\ \/ /\ disk' = Corrupt
          /\ writers' = writers \cup {t}
          /\ writes' = writes + 1
          /\ pc' = [pc EXCEPT ![t] = "dump"]
          /\ UNCHANGED model
       \/ /\ pc' = [pc EXCEPT ![t] = "done"]
          /\ model' = [model EXCEPT ![t] = NoneModel]
          /\ UNCHANGED <<disk, writers, writes>>
    /\ how' = [how EXCEPT ![t].saves = @ + 1]
    /\ UNCHANGED <<_classifier, inst, inits, trainings, last>>
    /\ UNCHANGED <<harness_vars, data_vars, report_vars>>

\* save_model: joblib.dump opens the file for writing, which truncates it;
\* or it raises before opening and the exception is caught
SaveOpen(t) ==
    /\ pc[t] = "save"
    /\ \/ /\ disk' = Corrupt
          /\ writers' = writers \cup {t}
          /\ writes' = writes + 1
          /\ pc' = [pc EXCEPT ![t] = "dump"]
       \/ /\ pc' = [pc EXCEPT ![t] = "publish"]
          /\ UNCHANGED <<disk, writers, writes>>
    /\ how' = [how EXCEPT ![t].saves = @ + 1]
    /\ UNCHANGED <<_classifier, model, inst, inits, trainings, last>>
    /\ UNCHANGED <<harness_vars, data_vars, report_vars>>

\* save_model that dumps the pipeline as it was before fit
SaveWrite_unfitted(t) ==
    /\ pc[t] = "dump"
    /\ writers' = writers \ {t}
    /\ \/ disk' = IF writers' = {} THEN File(Pipeline(TRAINING_LABELS, FALSE))
                  ELSE Corrupt
       \/ disk' = Corrupt
    /\ pc' = [pc EXCEPT ![t] = "publish"]
    /\ UNCHANGED <<_classifier, model, inst, how, inits, trainings, writes, last>>
    /\ UNCHANGED <<harness_vars, data_vars, report_vars>>

\* save_model: joblib.dump writes the pickle and closes the file, or raises
\* part way and the exception is caught. The file is whole once no writer
\* is left in it.
SaveWrite(t) ==
    /\ pc[t] = "dump"
    /\ writers' = writers \ {t}
    /\ \/ disk' = IF writers' = {} THEN File(model[t]) ELSE Corrupt
       \/ disk' = Corrupt
    /\ pc' = [pc EXCEPT ![t] = "publish"]
    /\ UNCHANGED <<_classifier, model, inst, how, inits, trainings, writes, last>>
    /\ UNCHANGED <<harness_vars, data_vars, report_vars>>

\* The instances still referenced: by the global, by a local variable
\* classifier, or by the constructor running on them. The others are freed.
Constructing == {"init", "load", "train", "save", "dump", "publish"}

Referenced(u, global, locals, at) ==
    \/ global = u
    \/ \E v \in Threads : locals[v] = u
    \/ at[u] \in Constructing

Collect(models, global, locals, at) ==
    [u \in Threads |->
        IF Referenced(u, global, locals, at) THEN models[u] ELSE NoneModel]

\* get_classifier: _classifier = ComplaintClassifier()
Publish(t) ==
    /\ pc[t] = "publish"
    /\ _classifier' = t
    /\ pc' = [pc EXCEPT ![t] = "return"]
    /\ how' = [how EXCEPT ![t] = NoPath]
    /\ model' = Collect(model, _classifier', inst, pc')
    /\ UNCHANGED <<disk, writers, inst, inits, trainings, writes, last>>
    /\ UNCHANGED <<harness_vars, data_vars, report_vars>>

\* get_classifier: return _classifier (the global is read again)
ReturnClassifier(t) ==
    /\ pc[t] = "return"
    /\ inst' = [inst EXCEPT ![t] = _classifier]
    /\ pc' = [pc EXCEPT ![t] = "predict"]
    /\ model' = Collect(model, _classifier, inst', pc')
    /\ UNCHANGED <<disk, writers, _classifier, how, inits, trainings,
                   writes, last>>
    /\ UNCHANGED <<harness_vars, data_vars, report_vars>>

\* What classifier.predict(complaint_text) can return on self_model: one
\* result per outcome of the calls on the model
predict_results(self_model, complaint_text) ==
    LET keyword_predictions == {keyword_based_classification(complaint_text)}
    IN  {predict_body(complaint_text, TRUE, inference, keyword_prediction) :
            inference \in Inference(self_model, preprocess_text(complaint_text)),
            keyword_prediction \in keyword_predictions}

\* predict_category whose predict retrains the classifier when the calls on
\* its model fail
Predict_retrains_on_failure(t) ==
    /\ pc[t] = "predict"
    /\ last' \in UNION {predict_results(model[inst[t]], complaint_text) :
                         complaint_text \in RequestTexts}
    /\ pc' = [pc EXCEPT ![t] = "done"]
    /\ inst' = [inst EXCEPT ![t] = 0]
    /\ IF model[inst[t]].usable
       THEN /\ model' = Collect(model, _classifier, inst', pc')
            /\ UNCHANGED trainings
       ELSE /\ model' = Collect([model EXCEPT ![inst[t]] = FittedModel],
                                _classifier, inst', pc')
            /\ trainings' = trainings + 1
    /\ UNCHANGED <<disk, writers, _classifier, how, inits, writes>>
    /\ UNCHANGED <<harness_vars, data_vars, report_vars>>

\* predict_category: return classifier.predict(complaint_text); the local
\* variable classifier goes out of scope
Predict(t) ==
    /\ pc[t] = "predict"
    /\ last' \in UNION {predict_results(model[inst[t]], complaint_text) :
                         complaint_text \in RequestTexts}
    /\ pc' = [pc EXCEPT ![t] = "done"]
    /\ inst' = [inst EXCEPT ![t] = 0]
    /\ model' = Collect(model, _classifier, inst', pc')
    /\ UNCHANGED <<disk, writers, _classifier, how, inits, trainings, writes>>
    /\ UNCHANGED <<harness_vars, data_vars, report_vars>>

Next ==
    \E t \in Threads :
        \/ GetClassifier(t)
        \/ InitExists(t)
        \/ LoadModel(t)
        \/ Train(t)
        \/ SaveOpen(t)
        \/ SaveWrite(t)
        \/ Publish(t)
        \/ ReturnClassifier(t)
        \/ Predict(t)

Spec == Init /\ [][Next]_vars

\* ------------------------------------------------------------- the harness
\* The models a test injects into classifier.model
StubLabels == {"Noise", "Cleanliness"}
StubModels == {NoneModel, Pipeline(StubLabels, TRUE), Pipeline(StubLabels, FALSE)}

\* The inputs of one call: the text, the injected model, the flag and what
\* the calls on the model do.
UnitInit ==
    /\ text \in Texts
    /\ stub \in StubModels
    /\ flag \in BOOLEAN
    /\ stat \in Inference(stub, preprocess_text(text))
    /\ out = Raise
    /\ norm = <<>>
    /\ op = "none"
    /\ ProcessIdle
    /\ DataIdle
    /\ ReportIdle

\* classifier.predict(text, use_keywords_fallback)
UnitPredict ==
    /\ op = "none"
    /\ out' = predict(text, flag, stat)
    /\ op' = "predict"
    /\ UNCHANGED <<text, stub, flag, stat, norm>>
    /\ UNCHANGED <<process_vars, data_vars, report_vars>>

\* classifier.keyword_based_classification(text)
UnitKeyword ==
    /\ op = "none"
    /\ out' = Return(keyword_based_classification(text), 0)
    /\ op' = "keyword"
    /\ UNCHANGED <<text, stub, flag, stat, norm>>
    /\ UNCHANGED <<process_vars, data_vars, report_vars>>

\* classifier.preprocess_text(text)
UnitPreprocess ==
    /\ op = "none"
    /\ norm' = preprocess_text(text)
    /\ op' = "preprocess"
    /\ UNCHANGED <<text, stub, flag, stat, out>>
    /\ UNCHANGED <<process_vars, data_vars, report_vars>>

UnitNext == UnitPredict \/ UnitKeyword \/ UnitPreprocess

PredictSpec == UnitInit /\ [][UnitNext]_vars

\* ------------------------------------------------------------ the database
\* A null foreign key, a missing POST parameter
Null == "None"

\* categories_data with one name spelled another way than the classifier's
PopulateNames_respelled ==
    {"Electricity", "Water Supply", "Road and Transport", "Cleanliness",
     "Noise", "Other"}

\* populate_categories: the names of categories_data
PopulateNames ==
    {"Electricity", "Water Supply", "Road & Transport", "Cleanliness",
     "Noise", "Other"}

\* Complaint.STATUS_CHOICES
STATUS_CHOICES == {"pending", "in_progress", "resolved", "rejected"}

\* The labels predict_category returns to submit_complaint: those of the
\* enumeration, and those of a pipeline loaded from a file of another label set
PredictableLabels == CategorySet \cup StaleLabels

\* What the requests send
Actions == {"update_status", "add_response", "delete", "archive", Null}
StatusInputs == {"in_progress", "closed"}
FinalCategoryInputs == {Null, "Noise", "Sanitation"}
MessageInputs == {"", "noted"}
\* The Category rows the admin site is asked to delete
DeletedNames == {"Noise", "Electricity"}

Response(view, kind, level) == [view |-> view, kind |-> kind, level |-> level]

\* A Complaint row; a foreign key holds the name of its Category row, which
\* is unique
Row(predicted_category, final_category, status, responses) ==
    [exists |-> TRUE, predicted_category |-> predicted_category,
     final_category |-> final_category, status |-> status,
     responses |-> responses]

DeletedRow ==
    [exists |-> FALSE, predicted_category |-> Null, final_category |-> Null,
     status |-> "pending", responses |-> 0]

\* Complaint.save: final_category defaults to predicted_category
Complaint_save(self) ==
    IF self.final_category = Null /\ self.predicted_category # Null
    THEN [self EXCEPT !.final_category = self.predicted_category]
    ELSE self

\* on_delete=models.SET_NULL on both foreign keys: the database update that
\* follows the deletion of the Category row name; Complaint.save is not called
set_null(self, name) ==
    [self EXCEPT
        !.predicted_category = IF @ = name THEN Null ELSE @,
        !.final_category = IF @ = name THEN Null ELSE @]

DataInit ==
    /\ registry = {}
    /\ complaints = <<>>
    /\ http = NoResponse
    /\ ProcessIdle
    /\ HarnessIdle
    /\ ReportIdle

\* manage.py populate_categories: get_or_create of each name
populate_categories ==
    /\ registry' = registry \cup PopulateNames
    /\ UNCHANGED <<complaints, http>>
    /\ UNCHANGED <<process_vars, harness_vars, report_vars>>

\* The admin site deletes a Category row
delete_category(name) ==
    /\ name \in registry
    /\ registry' = registry \ {name}
    /\ complaints' = [id \in 1..Len(complaints) |-> set_null(complaints[id], name)]
    /\ http' = Response("admin", "redirect", "success")
    /\ UNCHANGED <<process_vars, harness_vars, report_vars>>

\* submit_complaint without the except Category.DoesNotExist clause
submit_complaint_no_except(method, form_valid, predicted_category_name) ==
    /\ IF method = "POST" /\ form_valid
       THEN IF predicted_category_name \in registry
            THEN /\ Len(complaints) < MaxComplaints
                 /\ complaints' = Append(complaints,
                        Complaint_save(Row(predicted_category_name,
                                           predicted_category_name, "pending", 0)))
                 /\ http' = Response("submit_complaint", "redirect", "success")
            ELSE /\ http' = Response("submit_complaint", "error", "none")
                 /\ UNCHANGED complaints
       ELSE /\ http' = Response("submit_complaint", "render", "none")
            /\ UNCHANGED complaints
    /\ UNCHANGED registry
    /\ UNCHANGED <<process_vars, harness_vars, report_vars>>

\* submit_complaint: predicted_category_name is what predict_category
\* returned for the description
submit_complaint(method, form_valid, predicted_category_name) ==
    /\ IF method = "POST" /\ form_valid
       THEN /\ Len(complaints) < MaxComplaints
            /\ LET found == predicted_category_name \in registry
                   category_obj == IF found THEN predicted_category_name ELSE Null
                   complaint == Row(category_obj, category_obj, "pending", 0)
               IN  /\ complaints' = Append(complaints, Complaint_save(complaint))
                   /\ http' = Response("submit_complaint", "redirect",
                                       IF found THEN "success" ELSE "warning")
       ELSE /\ http' = Response("submit_complaint", "render", "none")
            /\ UNCHANGED complaints
    /\ UNCHANGED registry
    /\ UNCHANGED <<process_vars, harness_vars, report_vars>>

\* update_complaint, the end of the view: the context reads the local
\* variables update_form and response_form; reading one that was never
\* assigned raises UnboundLocalError
render_update(bound) ==
    IF {"update_form", "response_form"} \subseteq bound
    THEN Response("update_complaint", "render", "none")
    ELSE Response("update_complaint", "error", "none")

\* update_complaint
update_complaint(complaint_id, method, action, status, final_category, message) ==
    /\ IF complaint_id \notin 1..Len(complaints) \/ ~complaints[complaint_id].exists
       THEN /\ http' = Response("update_complaint", "not_found", "none")
            /\ UNCHANGED complaints
       ELSE IF method # "POST"
       THEN /\ http' = render_update({"update_form", "response_form"})
            /\ UNCHANGED complaints
       ELSE IF action = "update_status"
       THEN IF status \in STATUS_CHOICES /\ final_category \in registry \cup {Null}
            THEN /\ complaints' =
                       [complaints EXCEPT ![complaint_id] =
                           Complaint_save([@ EXCEPT !.status = status,
                                                    !.final_category = final_category])]
                 /\ http' = Response("update_complaint", "redirect", "success")
            ELSE /\ http' = render_update({"update_form"})
                 /\ UNCHANGED complaints
       ELSE IF action = "add_response"
       THEN IF message # ""
            THEN /\ complaints[complaint_id].responses < MaxResponses
                 /\ complaints' = [complaints EXCEPT ![complaint_id].responses = @ + 1]
                 /\ http' = Response("update_complaint", "redirect", "success")
            ELSE /\ http' = render_update({"response_form"})
                 /\ UNCHANGED complaints
       ELSE IF action = "delete"
       THEN /\ complaints' = [complaints EXCEPT ![complaint_id] = DeletedRow]
            /\ http' = Response("update_complaint", "redirect", "success")
       ELSE /\ http' = render_update({})
            /\ UNCHANGED complaints
    /\ UNCHANGED registry
    /\ UNCHANGED <<process_vars, harness_vars, report_vars>>

\* The requests to update_complaint: a GET, and a POST for each action with
\* the fields that action's form reads
UpdateRequests ==
    {[method |-> "GET", action |-> Null, status |-> "",
      final_category |-> Null, message |-> ""]}
    \cup {[method |-> "POST", action |-> "update_status", status |-> status,
           final_category |-> final_category, message |-> ""] :
             status \in StatusInputs, final_category \in FinalCategoryInputs}
    \cup {[method |-> "POST", action |-> "add_response", status |-> "",
           final_category |-> Null, message |-> message] :
             message \in MessageInputs}
    \cup {[method |-> "POST", action |-> action, status |-> "",
           final_category |-> Null, message |-> ""] :
             action \in Actions \ {"update_status", "add_response"}}

\* The requests to submit_complaint: a GET, a POST the form rejects, and a
\* valid POST for each label predict_category may return
SubmitRequests ==
    {[method |-> "GET", form_valid |-> FALSE, predicted_category_name |-> Null],
     [method |-> "POST", form_valid |-> FALSE, predicted_category_name |-> Null]}
    \cup {[method |-> "POST", form_valid |-> TRUE,
           predicted_category_name |-> name] : name \in PredictableLabels}

DataNext ==
    \/ populate_categories
    \/ \E name \in DeletedNames : delete_category(name)
    \/ \E request \in SubmitRequests :
          submit_complaint(request.method, request.form_valid,
                           request.predicted_category_name)
    \/ \E complaint_id \in 1..MaxComplaints, request \in UpdateRequests :
          update_complaint(complaint_id, request.method, request.action,
                           request.status, request.final_category,
                           request.message)

DataSpec == DataInit /\ [][DataNext]_vars

\* ------------------------------------------------------- the report views
\* Times are hours; a date is a number of days and, compared with a
\* DateTimeField, stands for its midnight
Day == 24
Midnight(date) == date * Day
DateOf(time) == time \div Day

\* The date of the requests
Today == 200
\* A date field of the search form left empty (cleaned to None)
NoDate == -1

\* export_pdf: [:100]
PdfLimit == 100
\* admin_dashboard: range(6), timedelta(days=30 * ...)
Buckets == 6
BucketDays == 30

\* The times timezone.now() returns to a request
RequestTimes == {Midnight(Today) + 9, Midnight(Today) + 18}

\* The Complaint rows the table may hold: the columns the report views read
StoredRow(id, created_at, status, final_category) ==
    [id |-> id, created_at |-> created_at, status |-> status,
     final_category |-> final_category]

StoredRows ==
    {StoredRow(1, Midnight(Today) + 8, "pending", "Noise"),
     StoredRow(2, Midnight(Today - 1), "resolved", Null),
     StoredRow(3, Midnight(Today - 1) + 12, "pending", "Electricity"),
     StoredRow(4, Midnight(Today - 100) + 9, "in_progress", "Noise"),
     StoredRow(5, Midnight(Today - 160) + 9, "pending", "Other"),
     StoredRow(6, Midnight(Today - 200), "rejected", "Electricity")}

\* A QuerySet: its rows, whether a slice was taken of it, and whether
\* building it raised
QuerySet(rows, sliced) == [rows |-> rows, sliced |-> sliced, raised |-> FALSE]
RaisedQuerySet == [rows |-> {}, sliced |-> FALSE, raised |-> TRUE]

\* QuerySet.filter: "Cannot filter a query once a slice has been taken."
filter(queryset, matching) ==
    IF queryset.raised \/ queryset.sliced
    THEN RaisedQuerySet
    ELSE [queryset EXCEPT !.rows = queryset.rows \cap matching]

\* queryset[:limit] under Meta.ordering = ['-created_at']
slice(queryset, limit) ==
    IF queryset.raised THEN RaisedQuerySet
    ELSE QuerySet({r \in queryset.rows :
                     Cardinality({o \in queryset.rows :
                         \/ o.created_at > r.created_at
                         \/ (o.created_at = r.created_at /\ o.id > r.id)}) < limit},
                  TRUE)

\* manage_complaints: the filters of the search form, applied when the form
\* is valid. An empty field is "", Null or NoDate and adds no filter.
search_filters(rows, request) ==
    LET all == QuerySet(rows, FALSE)
        by_status ==
            IF request.status # ""
            THEN filter(all, {r \in rows : r.status = request.status})
            ELSE all
        by_category ==
            IF request.category # Null
            THEN filter(by_status, {r \in rows : r.final_category = request.category})
            ELSE by_status
        by_date_from ==
            IF request.date_from # NoDate
            THEN filter(by_category,
                        {r \in rows : r.created_at >= Midnight(request.date_from)})
            ELSE by_category
        by_date_to ==
            IF request.date_to # NoDate
            THEN filter(by_date_from,
                        {r \in rows : r.created_at <= Midnight(request.date_to)})
            ELSE by_date_from
    IN  IF request.form_valid THEN by_date_to ELSE all

\* The report of a view that lists complaints
Listing(view, kind, queryset) ==
    IF queryset.raised
    THEN [view |-> view, kind |-> "error", ids |-> {}]
    ELSE [view |-> view, kind |-> kind, ids |-> {r.id : r \in queryset.rows}]

\* The GET parameters of manage_complaints, as the search form cleans them
SearchRequests ==
    {[view |-> "manage_complaints", form_valid |-> form_valid, status |-> status,
      category |-> category, date_from |-> date_from, date_to |-> date_to] :
        form_valid \in BOOLEAN, status \in {"", "pending"},
        category \in {Null, "Noise"}, date_from \in {NoDate, Today - 1},
        date_to \in {NoDate, Today - 1}}

ReportInit ==
    /\ now \in RequestTimes
    /\ table \in {rows \in SUBSET StoredRows : Cardinality(rows) <= MaxRows}
    /\ query = NoQuery
    /\ report = NoReport
    /\ ProcessIdle
    /\ HarnessIdle
    /\ DataIdle

\* manage_complaints: the complaints that pass the filters (the page shows
\* them sorted, 20 to a page)
manage_complaints(request) ==
    /\ query = NoQuery
    /\ query' = request
    /\ report' = Listing("manage_complaints", "page", search_filters(table, request))
    /\ UNCHANGED <<now, table>>
    /\ UNCHANGED <<process_vars, harness_vars, data_vars>>

\* admin_dashboard: bucket i of the monthly trend, i in range(6)
monthly_bucket(rows, time, i) ==
    LET month_start == time - BucketDays * (5 - i) * Day
        month_end == time - BucketDays * (4 - i) * Day
    IN  [month_start |-> month_start,
         month_end |-> month_end,
         count |-> Cardinality({r \in rows :
                      r.created_at >= month_start /\ r.created_at < month_end})]

\* admin_dashboard: the counts by status and the monthly trend
admin_dashboard ==
    /\ query = NoQuery
    /\ query' = [view |-> "admin_dashboard"]
    /\ report' =
          [view |-> "admin_dashboard", kind |-> "page",
           total_complaints |-> Cardinality(table),
           by_status |-> [status \in STATUS_CHOICES |->
                             Cardinality({r \in table : r.status = status})],
           monthly_data |-> [k \in 1..Buckets |-> monthly_bucket(table, now, k - 1)]]
    /\ UNCHANGED <<now, table>>
    /\ UNCHANGED <<process_vars, harness_vars, data_vars>>

\* The GET parameters of export_pdf; a missing one is None
ExportRequests ==
    {[view |-> "export_pdf", status |-> status, category |-> category] :
        status \in {Null, "pending"}, category \in {Null, "Noise"}}

\* if status: / if category:
Truthy(parameter) == parameter \notin {Null, ""}

\* export_pdf: the slice is taken first, the filters are applied to it
export_pdf(request) ==
    /\ query = NoQuery
    /\ query' = request
    /\ LET complaints_sliced == slice(QuerySet(table, FALSE), PdfLimit)
           by_status ==
               IF Truthy(request.status)
               THEN filter(complaints_sliced,
                           {r \in table : r.status = request.status})
               ELSE complaints_sliced
           by_category ==
               IF Truthy(request.category)
               THEN filter(by_status,
                           {r \in table : r.final_category = request.category})
               ELSE by_status
       IN  report' = Listing("export_pdf", "pdf", by_category)
    /\ UNCHANGED <<now, table>>
    /\ UNCHANGED <<process_vars, harness_vars, data_vars>>

ReportNext ==
    \/ \E request \in SearchRequests : manage_complaints(request)
    \/ admin_dashboard
    \/ \E request \in ExportRequests : export_pdf(request)

ReportSpec == ReportInit /\ [][ReportNext]_vars

\* ------------------------------------------------------------------ claims
\* The number of characters from the first to the last non-whitespace one
TrimmedLen(s) ==
    LET keep == {i \in 1..Len(s) : s[i] \notin Whitespace}
    IN  IF keep = {} THEN 0
        ELSE (CHOOSE i \in keep : \A j \in keep : j <= i)
             - (CHOOSE i \in keep : \A j \in keep : i <= j) + 1

Short(s) == s = <<>> \/ TrimmedLen(s) < 10

\* C1: predict never raises: on every text and every state of the model
\* (None, failing, working) the call returns a (category, confidence) pair.
C1_PredictNeverRaises ==
    op = "predict" => ~out.raised

\* C1 witness: the model is None, the text is long enough to reach it, and
\* predict has returned.
C1_Witness ==
    /\ op = "predict"
    /\ stub = NoneModel
    /\ stat.raised
    /\ ~Short(text)
    /\ ~out.raised

\* C2: on every lifecycle path (model fitted on the bank, or model loaded
\* from the file found at start) the category predict returns is a member of
\* the enumeration.
C2_CategoryInEnumeration ==
    last # NoResult => last.category \in CategorySet

\* C3: an empty text, or one shorter than 10 characters once trimmed, gets
\* exactly ("Other", 0.5) whatever the model and the flag are.
C3_ShortInput ==
    (op = "predict" /\ Short(text)) => out = Return("Other", 50000)

\* C3 witness: a text of 10 characters or more that trimming takes below 10,
\* on a working model that answers something else with full confidence.
C3_Witness ==
    /\ op = "predict"
    /\ Len(text) >= 10
    /\ TrimmedLen(text) < 10
    /\ stub.usable
    /\ stat.confidence = One
    /\ stat.prediction # "Other"
    /\ out = Return("Other", 50000)

\* C4: the threshold is strict: at a maximum probability of exactly 0.4 the
\* statistical label is returned with that confidence; below 0.4, with the
\* fallback enabled, the keyword fallback is taken.
C4_StrictThreshold ==
    (op = "predict" /\ ~Short(text) /\ ~stat.raised) =>
        /\ stat.confidence = 40000 => out = Return(stat.prediction, 40000)
        /\ (flag /\ stat.confidence < 40000) =>
               (out.confidence = 60000 /\ out # Return(stat.prediction, stat.confidence))

\* C4 witness: exactly 0.4 with the fallback enabled, on a text whose keyword
\* category differs from the statistical label.
C4_Witness ==
    /\ op = "predict"
    /\ ~Short(text)
    /\ flag
    /\ ~stat.raised
    /\ stat.confidence = 40000
    /\ keyword_based_classification(text) # stat.prediction
    /\ out.category = stat.prediction

\* C5: when the low-confidence fallback fires the result is the keyword
\* category of the original text with confidence exactly 0.6, whatever the
\* keyword scores are.
C5_FallbackResult ==
    (op = "predict" /\ ~Short(text) /\ ~stat.raised /\ flag
        /\ stat.confidence < Threshold) =>
        out = Return(keyword_based_classification(text), 60000)

\* C5 witness: the fallback fires on a text in which no keyword occurs.
C5_Witness ==
    /\ op = "predict"
    /\ ~Short(text)
    /\ ~stat.raised
    /\ flag
    /\ stat.confidence < Threshold
    /\ \A i \in 1..Len(categories) : keyword_score(categories[i], lower(text)) = 0
    /\ out = Return("Other", 60000)

\* C6: when the statistical classifier fails on a text of at least 10 trimmed
\* characters, predict returns the keyword category with confidence 0.5.
C6_ErrorFallback ==
    (op = "predict" /\ ~Short(text) /\ stat.raised) =>
        out = Return(keyword_based_classification(text), 50000)

\* C6 witness: a model whose calls raise, on a text with a keyword category
\* other than "Other".
C6_Witness ==
    /\ op = "predict"
    /\ ~Short(text)
    /\ stub = Pipeline(StubLabels, FALSE)
    /\ stat.raised
    /\ out.category # "Other"
    /\ out.confidence = 50000

\* C7: keyword_based_classification returns the first category, in
\* enumeration order, with the highest number of keywords occurring in the
\* lower-cased text, and "Other" when no keyword occurs.
C7_KeywordArgmax ==
    op = "keyword" =>
        LET scores == keyword_scores(lower(text), 1)
            top == CHOOSE i \in 1..Len(scores) :
                       \A j \in 1..Len(scores) : scores[j] <= scores[i]
        IN  IF scores[top] = 0
            THEN out.category = "Other"
            ELSE \E i \in 1..Len(categories) :
                    /\ out.category = categories[i]
                    /\ scores[i] = scores[top]
                    /\ \A j \in 1..(i - 1) : scores[j] < scores[i]

\* C7 witness: two categories tie for the highest non-zero count and the
\* earlier one is returned.
C7_Witness ==
    /\ op = "keyword"
    /\ LET scores == keyword_scores(lower(text), 1)
       IN  \E i, j \in 1..Len(categories) :
              /\ i < j
              /\ scores[i] > 0
              /\ scores[i] = scores[j]
              /\ \A k \in 1..Len(categories) : scores[k] <= scores[i]
              /\ out.category = categories[i]

\* C8: the confidence predict returns is in [0, 1] on every path.
C8_ConfidenceRange ==
    op = "predict" => (out.confidence >= 0 /\ out.confidence <= 100000)

\* C8 witness: the statistical path returns the model's probability 1.0.
C8_Witness ==
    /\ op = "predict"
    /\ ~Short(text)
    /\ ~stat.raised
    /\ stat.confidence = One
    /\ out.confidence = 100000

\* C9: a construction that has run to its end holds a model. If the file
\* existed and loaded, the model is the loaded one and nothing was fitted or
\* saved; if the file was absent or did not load, the model is the one fitted
\* on the bank, fitted once, and save_model was called once.
C9_LoadOrTrain ==
    \A t \in Threads :
        pc[t] = "publish" =>
            /\ model[t] # NoneModel
            /\ how[t].path \in {"loaded", "absent", "loadfailed"}
            /\ how[t].path = "loaded" =>
                   /\ model[t] = how[t].loaded
                   /\ how[t].fits = 0
                   /\ how[t].saves = 0
            /\ how[t].path \in {"absent", "loadfailed"} =>
                   /\ model[t] = FittedModel
                   /\ how[t].fits = 1
                   /\ how[t].saves = 1

\* C9 witness: the file existed, did not load, and the construction ended
\* with the fitted model.
C9_Witness ==
    \E t \in Threads :
        /\ pc[t] = "publish"
        /\ how[t].path = "loadfailed"
        /\ model[t] = FittedModel

\* C10: under concurrent first calls at most one construction runs, at most
\* one fit, at most one write of the file, and never two writers at once.
C10_AtMostOneInitialization ==
    /\ inits <= 1
    /\ trainings <= 1
    /\ writes <= 1
    /\ Cardinality(writers) <= 1

\* C11: once the global holds a classifier and no construction is running,
\* every further call of get_classifier reuses that instance: no step
\* constructs, loads, fits or writes again, and the global keeps its value.
C11_SingletonReused ==
    [][(_classifier # 0 /\ \A u \in Threads : pc[u] \notin Constructing) =>
          /\ _classifier' = _classifier
          /\ inits' = inits
          /\ trainings' = trainings
          /\ writes' = writes
          /\ disk' = disk
          /\ \A u \in Threads :
                /\ pc'[u] \notin Constructing
                /\ (pc[u] = "idle" /\ pc'[u] # "idle") =>
                      (pc'[u] = "predict" /\ inst'[u] = _classifier)
      ]_vars

\* C11 witness: one call has initialized the classifier and returned, and a
\* later call holds that same instance after a single construction.
C11_Witness ==
    /\ _classifier # 0
    /\ inits = 1
    /\ \E t, u \in Threads :
          /\ pc[t] = "done"
          /\ pc[u] = "predict"
          /\ inst[u] = _classifier

\* C12: a predict call changes nothing but its own result: the file, the
\* writers, the global, the model of every instance still referenced and the
\* counts of constructions, fits and writes are as before, on the exception
\* fallback as on every other path. And once the global holds a classifier it
\* never goes back to None.
C12_PredictReadOnly ==
    [][/\ \A t \in Threads :
             (pc[t] = "predict" /\ pc'[t] = "done") =>
                /\ disk' = disk
                /\ writers' = writers
                /\ _classifier' = _classifier
                /\ inits' = inits
                /\ trainings' = trainings
                /\ writes' = writes
                /\ how' = how
                /\ \A u \in Threads : u # t => pc'[u] = pc[u]
                /\ \A i \in Threads :
                      Referenced(i, _classifier', inst', pc') => model'[i] = model[i]
       /\ _classifier # 0 => _classifier' # 0
      ]_vars

\* C12 witness: a predict call has gone through the exception fallback on the
\* shared classifier, whose model raises, and that model is still the one
\* that was loaded.
C12_Witness ==
    /\ _classifier # 0
    /\ model[_classifier] = Pipeline(TRAINING_LABELS, FALSE)
    /\ \E t \in Threads : pc[t] = "done"
    /\ last.confidence = ErrorConfidence
    /\ last.category # "Other"

\* C13: a save_model whose write raises does not end the construction: after
\* the save was attempted the constructor goes on to its end with the fitted
\* model in memory. And when no write ever opened the file (every save
\* failed) the classifiers in use hold the fitted model and predict answers
\* from it on the statistical path, not from the exception fallback.
C13_SaveFailureKept ==
    /\ \A t \in Threads :
          how[t].saves = 1 =>
             (pc[t] \in {"dump", "publish"} /\ model[t] = FittedModel)
    /\ (disk.state # "file" /\ writes = 0) =>
          /\ \A t \in Threads : pc[t] = "predict" => model[inst[t]] = FittedModel
          /\ last # NoResult =>
                \E complaint_text \in RequestTexts :
                    last \in predict_results(FittedModel, complaint_text)

\* C13 witness: the model was fitted, no write ever opened the file, and a
\* predict call has returned the statistical label with the model's
\* probability.
C13_Witness ==
    /\ trainings >= 1
    /\ writes = 0
    /\ disk.state # "file"
    /\ \E t \in Threads : pc[t] = "done"
    /\ last.confidence = One

\* C14: preprocess_text is idempotent: applied to its own output it returns
\* that output, which holds only lowercase letters, digits and single spaces
\* between words, none of them leading or trailing.
C14_PreprocessIdempotent ==
    op = "preprocess" =>
        /\ preprocess_text(norm) = norm
        /\ \A i \in 1..Len(norm) :
              \/ norm[i] \in Digits
              \/ \E k \in 1..Len(LowerCase) : norm[i] = LowerCase[k]
              \/ /\ norm[i] = " "
                 /\ 1 < i
                 /\ i < Len(norm)
                 /\ norm[i + 1] # " "

\* C14 witness: preprocess_text has changed a text with capital letters,
\* special characters and a run of spaces into a non-empty normal form.
C14_Witness ==
    /\ op = "preprocess"
    /\ norm # <<>>
    /\ \E i \in 1..Len(text) : \E k \in 1..Len(UpperCase) : text[i] = UpperCase[k]
    /\ \E i \in 1..Len(text) : text[i] \in {"!", "-"}
    /\ \E i \in 1..(Len(text) - 1) : text[i] = " " /\ text[i + 1] = " "

C17_EnumerationInLockStep ==
    [][\A name \in CategorySet \cup TRAINING_LABELS :
          (submit_complaint("POST", TRUE, name) /\ PopulateNames \subseteq registry) =>
             /\ Len(complaints') = Len(complaints) + 1
             /\ complaints'[Len(complaints')].predicted_category = name
             /\ complaints'[Len(complaints')].final_category = name
             /\ name # Null
             /\ http' = Response("submit_complaint", "redirect", "success")
      ]_vars

\* C17 witness: after populate_categories a complaint labelled
\* "Road & Transport" was stored with both categories set to that row.
C17_Witness ==
    /\ PopulateNames \subseteq registry
    /\ Len(complaints) >= 1
    /\ complaints[Len(complaints)].predicted_category = "Road & Transport"
    /\ complaints[Len(complaints)].final_category = "Road & Transport"
    /\ http = Response("submit_complaint", "redirect", "success")

\* C18: every stored complaint with a predicted_category has a
\* final_category, after any sequence of submissions, updates through the
\* update form and deletions of Category rows.
C18_FinalFollowsPredicted ==
    \A id \in 1..Len(complaints) :
        (complaints[id].exists /\ complaints[id].predicted_category # Null) =>
            complaints[id].final_category # Null

\* C19: update_complaint answers every request for an existing complaint
\* with a redirect or the rendered page; it never raises.
C19_UpdateAlwaysResponds ==
    http.view = "update_complaint" =>
        http.kind \in {"redirect", "render", "not_found"}

\* C20: keyword matching ignores letter case for every listed keyword: when
\* the text contains a keyword of a category, in any letter case, the score
\* of that category is at least 1.
C20_KeywordCaseInsensitive ==
    op = "keyword" =>
        \A i \in 1..Len(categories) :
            \A k \in 1..Len(CATEGORY_KEYWORDS(categories[i])) :
                Contains(lower(text), lower(CATEGORY_KEYWORDS(categories[i])[k])) =>
                    keyword_score(categories[i], lower(text)) >= 1

\* C21: with date_to = D, manage_complaints lists every complaint created at
\* any time of day D that passes the other filters.
C21_DateToIncludesEndDate ==
    (report.view = "manage_complaints" /\ query.form_valid /\ query.date_to # NoDate) =>
        \A r \in table :
            (/\ DateOf(r.created_at) = query.date_to
             /\ (query.status = "" \/ r.status = query.status)
             /\ (query.category = Null \/ r.final_category = query.category)
             /\ (query.date_from = NoDate \/ DateOf(r.created_at) >= query.date_from))
            => r.id \in report.ids

\* C22: the six buckets of the monthly trend are consecutive 30-day windows
\* that cover exactly the 180 days ending now: the first starts 180 days ago,
\* none reaches into the future, and every complaint created in those 180
\* days is counted in exactly one bucket.
C22_MonthlyTrendLast180Days ==
    report.view = "admin_dashboard" =>
        LET monthly_data == report.monthly_data
            inside(r, k) ==
                /\ r.created_at >= monthly_data[k].month_start
                /\ r.created_at < monthly_data[k].month_end
        IN  /\ Len(monthly_data) = 6
            /\ \A k \in 1..6 :
                  /\ monthly_data[k].month_end - monthly_data[k].month_start = 30 * Day
                  /\ monthly_data[k].month_end <= now
                  /\ monthly_data[k].count =
                        Cardinality({r \in table : inside(r, k)})
            /\ \A k \in 1..5 :
                  monthly_data[k].month_end = monthly_data[k + 1].month_start
            /\ monthly_data[1].month_start = now - 180 * Day
            /\ \A r \in table :
                  (r.created_at >= now - 180 * Day /\ r.created_at < now) =>
                      Cardinality({k \in 1..6 : inside(r, k)}) = 1

\* C23: called with a status or a category parameter, export_pdf returns a
\* PDF that lists only complaints matching the filter, at most 100 of them.
C23_ExportPdfFilters ==
    (report.view = "export_pdf"
        /\ (Truthy(query.status) \/ Truthy(query.category))) =>
        /\ report.kind = "pdf"
        /\ Cardinality(report.ids) <= 100
        /\ \A r \in table :
              r.id \in report.ids =>
                 /\ (Truthy(query.status) => r.status = query.status)
                 /\ (Truthy(query.category) => r.final_category = query.category)

====
